---- MODULE Spec2Model ----
(***************************************************************************)
(* Jointformer: autoregressive generation, top-k sampling, the trainer's   *)
(* learning-rate schedule, task routing of forward/get_loss and the        *)
(* hybrid self-attention masking, as state machines.                       *)
(*                                                                         *)
(* Tensors are modelled by their contents: a batch of token sequences is a *)
(* function Batch -> Seq(TokenIds); real numbers are fixed-point integers. *)
(* The transformer body and the heads are unknown functions: their outputs *)
(* (logits, scores) are drawn nondeterministically.                        *)
(***************************************************************************)
EXTENDS Integers, Sequences, FiniteSets, TLC

VARIABLES
    \* Jointformer.generate / generate_single_token
    tokenizer,      \* the tokenizer collaborator's attributes
    gen_args,       \* temperature and top_k of the generate call
    idx,            \* the running batch: Batch -> sequence of token ids
    eos_flag,       \* Batch -> BOOLEAN
    idx_cond,       \* the context fed to the model at the last step
    steps_left,     \* iterations of range(max_new_tokens) still to run
    forced,         \* rows whose last position generate overwrote
    gpc,            \* position in generate
    \* one sampling step on a fixed logit vector
    s_logits, s_temperature, s_top_k, s_probs, s_draws, spc,
    \* Trainer: learning-rate schedule
    trainer,        \* the schedule's configuration
    lr_log,         \* per iteration index: the outcome of _get_lr(it), once called
    param_lr,       \* lr of the optimizer's param groups
    \* Jointformer.forward / predict / get_loss
    model_cfg,      \* what construction fixed: task type, variant, attributes
    call,           \* the last call made on the model and its arguments
    out,            \* its outcome: the ModelOutput or the error, and what ran
    \* HybridSelfAttention
    att_cfg,        \* flash (fused path available), block_size, training
    att_call,       \* the last forward call: task, T, mask, q and k
    att_out,        \* its outcome: blocked pairs, weights, returned att
    \* Jointformer.__init__ / from_config: weight tying
    tie_config,     \* the configuration object handed to the constructor
    tie_args,       \* the arguments __init__ received
    weight,         \* module name -> the parameter storage its .weight refers to
    storage,        \* parameter storage -> its content
    last_write,     \* the last in-place write: through which module, what value
    tpc,            \* position in construction
    \* Trainer construction in the processes of one training run
    run,            \* the launch: processes, RANK/LOCAL_RANK/WORLD_SIZE exported or not, options
    proc,           \* per process: position in __init__ and the attributes set so far
    out_dir_makers, \* the processes that called os.makedirs(out_dir)
    \* Trainer.estimate_loss
    eval_cfg,       \* eval_iters and batch_size of the trainer
    model_training,       \* the mode of the model: TRUE training, FALSE evaluation
    e_split,        \* index of the split being evaluated
    e_k,            \* the loop counter k
    e_losses,       \* sum of the per-batch losses of the split
    e_valid,        \* the list valid: its length and the number of True entries
    e_out,          \* the dictionary out
    e_exc,          \* the error estimate_loss raised, if any
    events,         \* the calls made on the model and the tokenizer
    epc             \* position in estimate_loss

genVars == <<tokenizer, gen_args, idx, eos_flag, idx_cond, steps_left, forced, gpc>>
sampleVars == <<s_logits, s_temperature, s_top_k, s_probs, s_draws, spc>>
lrVars == <<trainer, lr_log, param_lr>>
lossVars == <<model_cfg, call, out>>
attVars == <<att_cfg, att_call, att_out>>
tieVars == <<tie_config, tie_args, weight, storage, last_write, tpc>>
ddpVars == <<run, proc, out_dir_makers>>
evalVars == <<eval_cfg, model_training, e_split, e_k, e_losses, e_valid, e_out, e_exc, events, epc>>
vars == <<genVars, sampleVars, lrVars, lossVars, attVars, tieVars, ddpVars, evalVars>>

(***************************************************************************)
(* Bounds and value sets                                                   *)
(***************************************************************************)
MaxPrefixLen == 1
MaxMolLen == 4
MaxSeqLen == 1
MaxDraws == 2
MaxWarmupIters == 3
MaxDecayIters == 5
MaxIter == 6
MaxT == 2
MaxBlockSize == 2
MaxDropped == 1

TokenIds == 0 .. 2          \* the vocabulary; id 0 is a legal token id
Batch == 1 .. 2             \* rows of the generated batch
LogitVals == {-2, 0, 2}     \* fixed-point logits
Temperatures == {1, 2}      \* temperature > 0
NoTopK == 0                 \* top_k is None
TopKs == {NoTopK, 1, 2}
NegInf == -1000             \* -float('Inf')

SeqsUpTo(S, n) == UNION {[1 .. k -> S] : k \in 0 .. n}
Range(s) == {s[i] : i \in DOMAIN s}
Last(s) == s[Len(s)]
Min(a, b) == IF a < b THEN a ELSE b
Max(a, b) == IF a > b THEN a ELSE b

(***************************************************************************)
(* Sampling: temperature, top-k filter, softmax, multinomial               *)
(***************************************************************************)
\* logits[:, -1, :] / temperature
ScaleLogits(logits, temperature) ==
    [t \in DOMAIN logits |-> logits[t] \div temperature]

\* v[:, [-1]] of torch.topk(logits, k): the k-th largest entry, counted with
\* multiplicity
KthLargest(logits, k) ==
    CHOOSE x \in Range(logits) :
        /\ Cardinality({t \in DOMAIN logits : logits[t] > x}) < k
        /\ Cardinality({t \in DOMAIN logits : logits[t] >= x}) >= k

\* if top_k is not None: logits[logits < v[:, [-1]]] = -inf
TopKFilter(logits, top_k) ==
    IF top_k = NoTopK THEN logits
    ELSE LET v == KthLargest(logits, Min(top_k, Cardinality(DOMAIN logits)))
         IN  [t \in DOMAIN logits |-> IF logits[t] < v THEN NegInf ELSE logits[t]]

\* exp(x) in thousandths; exp(-inf) = 0
ExpFix(x) ==
    CASE x = NegInf -> 0
      [] x = -2 -> 135
      [] x = -1 -> 368
      [] x = 0 -> 1000
      [] x = 1 -> 2718
      [] x = 2 -> 7389

RECURSIVE SumOver(_, _)
SumOver(f, S) ==
    IF S = {} THEN 0
    ELSE LET t == CHOOSE u \in S : TRUE IN f[t] + SumOver(f, S \ {t})

\* F.softmax(logits, dim=-1), in thousandths
Softmax(logits) ==
    LET e == [t \in DOMAIN logits |-> ExpFix(logits[t])]
        z == SumOver(e, DOMAIN logits)
    IN  [t \in DOMAIN logits |-> (e[t] * 1000) \div z]

\* probs of one row from the model's logits
NextTokenProbs(logits, temperature, top_k) ==
    Softmax(TopKFilter(ScaleLogits(logits, temperature), top_k))

\* torch.multinomial(probs, num_samples=1) can return t
CanSample(probs, t) == probs[t] > 0

LogitVecs == [TokenIds -> LogitVals]

\* the tokens one step can sample for some output of the model: the body and
\* the LM head are unknown functions of the context
SamplableTokens ==
    [tmp \in Temperatures, k \in TopKs |->
        {t \in TokenIds : \E logits \in LogitVecs :
            CanSample(NextTokenProbs(logits, tmp, k), t)}]

(***************************************************************************)
(* Jointformer.generate                                                    *)
(***************************************************************************)
GenIdle ==
    /\ tokenizer = [has_prefix |-> FALSE, generation_prefix |-> <<>>,
                    max_molecule_length |-> 0, sep_token_id |-> 0, pad_token_id |-> 0]
    /\ gen_args = [temperature |-> 1, top_k |-> NoTopK]
    /\ idx = [b \in Batch |-> <<>>]
    /\ eos_flag = [b \in Batch |-> FALSE]
    /\ idx_cond = [b \in Batch |-> <<>>]
    /\ steps_left = 0
    /\ forced = {}
    /\ gpc = "idle"

GenInit ==
    /\ \E hp \in BOOLEAN, p \in SeqsUpTo(TokenIds, MaxPrefixLen), m \in 0 .. MaxMolLen,
          e \in TokenIds, pd \in TokenIds :
          /\ (~hp) => (p = <<>> /\ m = 0 /\ e = 0 /\ pd = 0)
          /\ tokenizer = [has_prefix |-> hp, generation_prefix |-> p,
                          max_molecule_length |-> m, sep_token_id |-> e, pad_token_id |-> pd]
    /\ \E tmp \in Temperatures, k \in TopKs : gen_args = [temperature |-> tmp, top_k |-> k]
    /\ idx = [b \in Batch |-> <<>>]
    /\ eos_flag = [b \in Batch |-> FALSE]
    /\ idx_cond = [b \in Batch |-> <<>>]
    /\ steps_left = 0
    /\ forced = {}
    /\ gpc = "start"

eos_token_id == tokenizer.sep_token_id
pad_token_id == tokenizer.pad_token_id
PrefixLen == Len(tokenizer.generation_prefix)

\* assert hasattr(tokenizer, 'generation_prefix'); prefix = ...expand(batch_size, -1);
\* entry of generate_single_token: eos_flag = zeros, range(max_molecule_length - 2)
GenStart ==
    /\ gpc = "start"
    /\ IF ~tokenizer.has_prefix
       THEN /\ gpc' = "raised"
            /\ UNCHANGED <<idx, eos_flag, steps_left>>
       ELSE /\ idx' = [b \in Batch |-> tokenizer.generation_prefix]
            /\ eos_flag' = [b \in Batch |-> FALSE]
            /\ steps_left' = Max(0, tokenizer.max_molecule_length - 2)
            /\ gpc' = "loop"
    /\ UNCHANGED <<tokenizer, gen_args, idx_cond, forced>>

\* if eos_token_id: is_end = (idx[:, [-1]] == eos) | (idx[:, [-1]] == pad);
\*                  eos_flag = eos_flag | is_end
EosFlagUpdate(flag, row) ==
    IF eos_token_id # 0
    THEN flag \/ (Last(row) = eos_token_id \/ Last(row) = pad_token_id)
    ELSE flag

\* idx if idx.size(1) <= max_seq_len else idx[:, -max_seq_len:]
CropContext(row) ==
    IF Len(row) <= MaxSeqLen THEN row
    ELSE SubSeq(row, Len(row) - MaxSeqLen + 1, Len(row))

\* torch.where(eos_flag, ones_like(idx_next) * pad_token_id, idx_next)
AppendedToken(flag, sampled) == IF flag THEN pad_token_id ELSE sampled

\* one iteration of the loop of generate_single_token
GenStep ==
    /\ gpc = "loop"
    /\ steps_left > 0
    /\ IF PrefixLen = 0
       THEN \* idx[:, [-1]] and embeddings[:, [-1]] of an empty context: IndexError
            /\ gpc' = "raised"
            /\ UNCHANGED <<idx, eos_flag, idx_cond, steps_left>>
       ELSE /\ eos_flag' = [b \in Batch |-> EosFlagUpdate(eos_flag[b], idx[b])]
            /\ idx_cond' = [b \in Batch |-> CropContext(idx[b])]
            /\ \E idx_next \in [Batch -> SamplableTokens[gen_args.temperature, gen_args.top_k]] :
                  idx' = [b \in Batch |->
                            Append(idx[b], AppendedToken(eos_flag'[b], idx_next[b]))]
            /\ steps_left' = steps_left - 1
            /\ gpc' = "loop"
    /\ UNCHANGED <<tokenizer, gen_args, forced>>

\* mutant: the safeguard writes the pad token
ForceEndTokenPad(row) ==
    IF eos_token_id \in Range(row) THEN row
    ELSE [row EXCEPT ![Len(row)] = pad_token_id]

\* if eos_token_id not in sequence: idx[sequence_idx, -1] = eos_token_id
ForceEndToken(row) ==
    IF eos_token_id \in Range(row) THEN row
    ELSE [row EXCEPT ![Len(row)] = eos_token_id]

\* the completion check of generate, then return idx
GenFinish ==
    /\ gpc = "loop"
    /\ steps_left = 0
    /\ IF \E b \in Batch : Len(idx[b]) = 0
       THEN \* idx[sequence_idx, -1] of an empty row: IndexError
            /\ gpc' = "raised"
            /\ UNCHANGED <<idx, forced>>
       ELSE /\ idx' = [b \in Batch |-> ForceEndToken(idx[b])]
            /\ forced' = {b \in Batch : eos_token_id \notin Range(idx[b])}
            /\ gpc' = "returned"
    /\ UNCHANGED <<tokenizer, gen_args, eos_flag, idx_cond, steps_left>>

(***************************************************************************)
(* One sampling step on a fixed logit vector, sampled repeatedly           *)
(***************************************************************************)
SampleIdle ==
    /\ s_logits = [t \in TokenIds |-> 0]
    /\ s_temperature = 1
    /\ s_top_k = NoTopK
    /\ s_probs = [t \in TokenIds |-> 0]
    /\ s_draws = <<>>
    /\ spc = "idle"

SampleInit ==
    /\ s_logits \in LogitVecs
    /\ s_temperature \in Temperatures
    /\ s_top_k \in TopKs
    /\ s_probs = [t \in TokenIds |-> 0]
    /\ s_draws = <<>>
    /\ spc = "logits"

\* lines 232-240: scale, crop to the top k, softmax
SampleFilter ==
    /\ spc = "logits"
    /\ s_probs' = NextTokenProbs(s_logits, s_temperature, s_top_k)
    /\ spc' = "probs"
    /\ UNCHANGED <<s_logits, s_temperature, s_top_k, s_draws>>

\* line 243: idx_next = torch.multinomial(probs, num_samples=1)
SampleDraw ==
    /\ spc = "probs"
    /\ Len(s_draws) < MaxDraws
    /\ \E t \in TokenIds :
          /\ CanSample(s_probs, t)
          /\ s_draws' = Append(s_draws, t)
    /\ UNCHANGED <<s_logits, s_temperature, s_top_k, s_probs, spc>>

(***************************************************************************)
(* Trainer._get_lr and Trainer.set_lr                                      *)
(* Rates are fixed-point integers; coefficients are in units of 1/FixOne.  *)
(***************************************************************************)
FixOne == 10000
LearningRates == {12, 60}
MinLrs == {0, 6, 60}

\* math.cos(math.pi * n / 60) for n = 0 .. 60, rounded to 1/FixOne
CosTable ==
    <<
       10000, 9986, 9945, 9877, 9781, 9659, 9511, 9336, 9135, 8910,
       8660, 8387, 8090, 7771, 7431, 7071, 6691, 6293, 5878, 5446,
       5000, 4540, 4067, 3584, 3090, 2588, 2079, 1564, 1045, 523,
       0, -523, -1045, -1564, -2079, -2588, -3090, -3584, -4067, -4540,
       -5000, -5446, -5878, -6293, -6691, -7071, -7431, -7771, -8090, -8387,
       -8660, -8910, -9135, -9336, -9511, -9659, -9781, -9877, -9945, -9986,
       -10000
    >>

\* math.cos(math.pi * decay_ratio) for decay_ratio = num / den, den dividing 60
CosPi(num, den) == CosTable[((num * 60) \div den) + 1]

Returned(v) == [called |-> TRUE, exc |-> "none", val |-> v]
Raised(e) == [called |-> TRUE, exc |-> e, val |-> 0]
NotCalled == [called |-> FALSE, exc |-> "none", val |-> 0]

\* mutant: the factor 0.5 is missing
CosineCoeffNoHalf(num, den) == FixOne + CosPi(num, den)

\* coeff = 0.5 * (1.0 + math.cos(math.pi * decay_ratio))
CosineCoeff(num, den) == (FixOne + CosPi(num, den)) \div 2

\* Trainer._get_lr(it)
GetLr(it) ==
    IF it < trainer.warmup_iters
    THEN Returned((trainer.learning_rate * it) \div trainer.warmup_iters)
    ELSE IF it > trainer.lr_decay_iters
    THEN Returned(trainer.min_lr)
    ELSE LET num == it - trainer.warmup_iters
             den == trainer.lr_decay_iters - trainer.warmup_iters
         IN  IF den = 0 THEN Raised("ZeroDivisionError")
             ELSE IF ~(0 <= num /\ num <= den /\ den > 0) THEN Raised("AssertionError")
             ELSE Returned(trainer.min_lr
                           + (CosineCoeff(num, den)
                              * (trainer.learning_rate - trainer.min_lr)) \div FixOne)

LrIdle ==
    /\ trainer = [learning_rate |-> 0, min_lr |-> 0, warmup_iters |-> 0,
                  lr_decay_iters |-> 0, decay_lr |-> FALSE]
    /\ lr_log = [it \in 0 .. MaxIter |-> NotCalled]
    /\ param_lr = 0

LrInit ==
    /\ \E l \in LearningRates, m \in MinLrs, w \in 0 .. MaxWarmupIters,
          d \in 0 .. MaxDecayIters, dl \in BOOLEAN :
          trainer = [learning_rate |-> l, min_lr |-> m, warmup_iters |-> w,
                     lr_decay_iters |-> d, decay_lr |-> dl]
    /\ lr_log = [it \in 0 .. MaxIter |-> NotCalled]
    /\ param_lr = 0

\* Trainer.set_lr(iter_num)
SetLr ==
    \E iter_num \in 0 .. MaxIter :
        /\ IF trainer.decay_lr
           THEN LET r == GetLr(iter_num)
                IN  /\ lr_log' = [lr_log EXCEPT ![iter_num] = r]
                    /\ param_lr' = IF r.exc = "none" THEN r.val ELSE param_lr
           ELSE /\ param_lr' = trainer.learning_rate
                /\ UNCHANGED lr_log
        /\ UNCHANGED trainer

(***************************************************************************)
(* Jointformer.forward, predict, get_loss                                  *)
(* Tensors are symbolic: a field holds "None" or the name of the value     *)
(* that was computed into it.  An outcome records the Transformer body     *)
(* calls and the heads that ran, besides the ModelOutput or the error.     *)
(***************************************************************************)
None == "None"
TaskTags == {"generation", "lm", "mlm", "prediction", "physchem", "finetune", ""}
ForwardTasks == {"generation", "mlm", "prediction", "physchem"}
LossTasks == {"lm", "generation", "mlm", "prediction", "physchem"}
AttentionMasks == {None, "attention_mask"}
Labels == {None, "input_labels"}
Properties == {None, "properties"}
PredictionTaskTypes == {"classification", "regression"}
Variants == {"Jointformer", "JointformerWithPrefix", "JointformerWithMaxEmbeddings"}
NumPredictionTasks == 0 .. 2

EmptyOutput ==
    [attention_mask |-> None, embeddings |-> None, cls_embeddings |-> None,
     lm_embeddings |-> None, logits_generation |-> None, logits_physchem |-> None,
     logits_prediction |-> None, layer_embeddings |-> None, loss |-> None]

NoOutcome ==
    [returned |-> FALSE, exc |-> "none", body_calls |-> <<>>, heads_run |-> {},
     mo |-> EmptyOutput]

\* raise before anything ran
RaiseEarly(e) == [NoOutcome EXCEPT !.exc = e]

\* raise inside a call that already holds outcome o
RaiseAfter(o, e) == [o EXCEPT !.returned = FALSE, !.exc = e, !.mo = EmptyOutput]

\* mutant: an unrecognized task falls back to the bidirectional path
TaskRouteDefaulting(task, attention_mask) ==
    IF task = "generation"
    THEN [ok |-> TRUE, is_causal |-> TRUE, attention_mask |-> None]
    ELSE [ok |-> TRUE, is_causal |-> FALSE, attention_mask |-> attention_mask]

\* forward, lines 86-93: task -> (_is_causal, _attention_mask) or ValueError
TaskRoute(task, attention_mask) ==
    IF task = "generation"
    THEN [ok |-> TRUE, is_causal |-> TRUE, attention_mask |-> None]
    ELSE IF task \in {"physchem", "prediction", "mlm"}
    THEN [ok |-> TRUE, is_causal |-> FALSE, attention_mask |-> attention_mask]
    ELSE [ok |-> FALSE, is_causal |-> FALSE, attention_mask |-> None]

\* _get_cls_embeddings of the constructed class
GetClsEmbeddings ==
    IF model_cfg.variant = "JointformerWithMaxEmbeddings"
    THEN "embeddings.max(dim=1)"
    ELSE "embeddings[:, 0]"

\* _get_lm_embeddings of the constructed class
GetLmEmbeddings(next_token_only) ==
    IF model_cfg.variant = "JointformerWithPrefix"
    THEN (IF next_token_only THEN "embeddings[:, 1:][:, [-1]]" ELSE "embeddings[:, 1:]")
    ELSE (IF next_token_only THEN "embeddings[:, [-1]]" ELSE "embeddings")

\* mutant: every head runs on every call
HeadLogitsAll(is_causal) ==
    [logits_generation |-> "lm_head(lm_embeddings)",
     logits_physchem |-> "physchem_head(cls_embeddings)",
     logits_prediction |-> "prediction_head(cls_embeddings)",
     heads_run |-> {"lm_head", "physchem_head", "prediction_head"}]

\* forward, lines 100-104: the heads that run
HeadLogits(is_causal) ==
    IF is_causal
    THEN [logits_generation |-> "lm_head(lm_embeddings)",
          logits_physchem |-> None,
          logits_prediction |-> None,
          heads_run |-> {"lm_head"}]
    ELSE [logits_generation |-> None,
          logits_physchem |-> "physchem_head(cls_embeddings)",
          logits_prediction |-> "prediction_head(cls_embeddings)",
          heads_run |-> {"physchem_head", "prediction_head"}]

\* Jointformer.forward(input_ids, task, attention_mask, next_token_only)
Forward(task, attention_mask, next_token_only) ==
    LET route == TaskRoute(task, attention_mask)
        heads == HeadLogits(route.is_causal)
    IN  IF ~route.ok THEN RaiseEarly("ValueError")
        ELSE [returned |-> TRUE,
              exc |-> "none",
              body_calls |-> <<[is_causal |-> route.is_causal,
                                attention_mask |-> route.attention_mask]>>,
              heads_run |-> heads.heads_run,
              mo |-> [attention_mask |-> attention_mask,
                      embeddings |-> "embeddings",
                      cls_embeddings |-> GetClsEmbeddings,
                      lm_embeddings |-> GetLmEmbeddings(next_token_only),
                      logits_generation |-> heads.logits_generation,
                      logits_physchem |-> heads.logits_physchem,
                      logits_prediction |-> heads.logits_prediction,
                      layer_embeddings |-> model_cfg.layer_embeddings,
                      loss |-> None]]

\* Jointformer.predict
Predict(attention_mask) == Forward("prediction", attention_mask, FALSE)

\* mutant: the loss is computed whether or not labels were passed
GetLossLmAlways(attention_mask, input_labels) ==
    LET outputs == Forward("generation", attention_mask, FALSE)
    IN  [outputs EXCEPT !.mo.loss = "cross_entropy"]

\* Jointformer.get_loss_lm
GetLossLm(attention_mask, input_labels) ==
    LET outputs == Forward("generation", attention_mask, FALSE)
    IN  IF input_labels # None
        THEN [outputs EXCEPT !.mo.loss = "cross_entropy"]
        ELSE outputs

\* Jointformer.get_loss_mlm
GetLossMlm(attention_mask, input_labels) ==
    LET outputs == Forward("mlm", attention_mask, FALSE)
        with_mlm == [outputs EXCEPT !.mo.logits_generation = "mlm_head(embeddings)",
                                    !.heads_run = @ \cup {"mlm_head"}]
    IN  IF input_labels # None
        THEN [with_mlm EXCEPT !.mo.loss = "cross_entropy"]
        ELSE with_mlm

\* mutant: the physchem loss runs the generation path
GetLossPhyschemCausal(attention_mask, properties) ==
    LET outputs == Forward("generation", attention_mask, FALSE)
    IN  IF properties # None
        THEN [outputs EXCEPT !.mo.loss = "mse_loss"]
        ELSE outputs

\* Jointformer.get_loss_physchem
GetLossPhyschem(attention_mask, properties) ==
    LET outputs == Predict(attention_mask)
    IN  IF properties # None
        THEN [outputs EXCEPT !.mo.loss = "mse_loss"]
        ELSE outputs

\* Jointformer.get_loss_prediction
GetLossPrediction(attention_mask, properties) ==
    LET outputs == Predict(attention_mask)
    IN  IF properties = None THEN outputs
        ELSE IF model_cfg.prediction_task_type = "classification"
        THEN IF ~model_cfg.has_num_prediction_tasks
             THEN RaiseAfter(outputs, "AttributeError")
             ELSE IF model_cfg.num_prediction_tasks = 1
             THEN [outputs EXCEPT !.mo.loss = "cross_entropy"]
             ELSE IF model_cfg.num_prediction_tasks > 1
             THEN [outputs EXCEPT !.mo.loss = "binary_cross_entropy_with_logits"]
             ELSE RaiseAfter(outputs, "ValueError")
        ELSE IF model_cfg.prediction_task_type = "regression"
        THEN [outputs EXCEPT !.mo.loss = "mse_loss"]
        ELSE RaiseAfter(outputs, "ValueError")

\* Jointformer.get_loss(input_ids, attention_mask, task, input_labels, properties)
GetLoss(task, attention_mask, input_labels, properties) ==
    IF task = "lm" \/ task = "generation" THEN GetLossLm(attention_mask, input_labels)
    ELSE IF task = "mlm" THEN GetLossMlm(attention_mask, input_labels)
    ELSE IF task = "prediction" THEN GetLossPrediction(attention_mask, properties)
    ELSE IF task = "physchem" THEN GetLossPhyschem(attention_mask, properties)
    ELSE RaiseEarly("ValueError")

\* forward, predict and get_loss keep no state between calls: one call per
\* constructed model shows every outcome
NoCall ==
    [entry |-> "none", task |-> "", attention_mask |-> None, next_token_only |-> FALSE,
     input_labels |-> None, properties |-> None]

LossIdle ==
    /\ model_cfg = [prediction_task_type |-> "regression", variant |-> "Jointformer",
                    num_prediction_tasks |-> 1, has_num_prediction_tasks |-> FALSE,
                    layer_embeddings |-> None]
    /\ call = NoCall
    /\ out = NoOutcome

\* Jointformer.__init__ returned: prediction_task_type passed its check.  The
\* attribute num_prediction_tasks is not assigned in __init__; whether a base
\* class provides it is not decided by this class.
LossInit ==
    /\ \E ptt \in PredictionTaskTypes, v \in Variants, n \in NumPredictionTasks,
          h \in BOOLEAN, le \in {None, "layer_embeddings"} :
          model_cfg = [prediction_task_type |-> ptt, variant |-> v,
                       num_prediction_tasks |-> n, has_num_prediction_tasks |-> h,
                       layer_embeddings |-> le]
    /\ call = NoCall
    /\ out = NoOutcome

CallForward ==
    /\ call = NoCall
    /\ \E task \in TaskTags, am \in AttentionMasks, nto \in BOOLEAN :
        /\ call' = [NoCall EXCEPT !.entry = "forward", !.task = task,
                                  !.attention_mask = am, !.next_token_only = nto]
        /\ out' = Forward(task, am, nto)
        /\ UNCHANGED model_cfg

CallPredict ==
    /\ call = NoCall
    /\ \E am \in AttentionMasks :
        /\ call' = [NoCall EXCEPT !.entry = "predict", !.task = "prediction",
                                  !.attention_mask = am]
        /\ out' = Predict(am)
        /\ UNCHANGED model_cfg

CallGetLoss ==
    /\ call = NoCall
    /\ \E task \in TaskTags, am \in AttentionMasks, il \in Labels, pr \in Properties :
        /\ call' = [NoCall EXCEPT !.entry = "get_loss", !.task = task,
                                  !.attention_mask = am, !.input_labels = il,
                                  !.properties = pr]
        /\ out' = GetLoss(task, am, il, pr)
        /\ UNCHANGED model_cfg

(***************************************************************************)
(* HybridSelfAttention.forward, one batch element and one head of size 1   *)
(* q and k are vectors over the positions 1 .. T; the mask marks the       *)
(* positions that take part in attention.  Weights are in thousandths.     *)
(***************************************************************************)
AttTasks == {"lm", "mlm", "generation"}
QKVals == {-1, 1}
NaN == -1                   \* softmax of a row filled with -inf
Pairs(T) == (1 .. T) \X (1 .. T)
NoMask == [given |-> FALSE, keep |-> {}]
MasksOver(T) == {NoMask} \cup {[given |-> TRUE, keep |-> K] : K \in SUBSET (1 .. T)}

\* torch.tril(torch.ones(block_size, block_size)) == 0, sliced to [:T, :T]
\* and broadcast against the T x T scores; a 1 x 1 buffer broadcasts to every
\* pair, a larger buffer smaller than T does not broadcast
CausalBufferFits(T, block_size) == T <= block_size \/ block_size = 1
CausalBufferBlocked(T, block_size) ==
    IF T <= block_size THEN {p \in Pairs(T) : p[2] > p[1]} ELSE {}

\* is_causal=True of scaled_dot_product_attention
CausalBlocked(T) == {p \in Pairs(T) : p[2] > p[1]}

\* mask == 0 (attn_mask=mask in the fused path): the excluded key positions
MaskBlocked(T, mask) ==
    IF mask.given THEN {p \in Pairs(T) : p[2] \notin mask.keep} ELSE {}

\* mutant: the lm branch applies the supplied mask on top of the causal one
LmBlockedWithMask(flash, T, block_size, mask) ==
    (IF flash THEN CausalBlocked(T) ELSE CausalBufferBlocked(T, block_size))
        \cup MaskBlocked(T, mask)

\* the pairs the lm branch fills with -inf (lines 66 and 74)
LmBlocked(flash, T, block_size, mask) ==
    IF flash THEN CausalBlocked(T) ELSE CausalBufferBlocked(T, block_size)

\* (q @ k.transpose(-2, -1)) * (1.0 / math.sqrt(k.size(-1))), head size 1
Scores(q, k, T) == [p \in Pairs(T) |-> q[p[1]] * k[p[2]]]

\* att.masked_fill(blocked, -inf)
MaskedFill(scores, blocked) ==
    [p \in DOMAIN scores |-> IF p \in blocked THEN NegInf ELSE scores[p]]

\* F.softmax(att, dim=-1): row by row
SoftmaxRows(att, T) ==
    [p \in Pairs(T) |->
        LET e == [j \in 1 .. T |-> ExpFix(att[<<p[1], j>>])]
            z == SumOver(e, 1 .. T)
        IN  IF z = 0 THEN NaN ELSE (e[p[2]] * 1000) \div z]

\* nn.Dropout(0.5) on the weights: dropped entries become 0, the rest are
\* scaled by 1 / (1 - p); the identity outside training
Dropout(w, dropped, training) ==
    IF ~training THEN w
    ELSE [p \in DOMAIN w |-> IF p \in dropped THEN 0
                             ELSE IF w[p] = NaN THEN NaN ELSE 2 * w[p]]

AttNoOutcome == [stage |-> "none", exc |-> "none", returned |-> FALSE, blocked |-> {},
                 att_returned |-> FALSE, att |-> <<>>, weights |-> <<>>]

AttRaise(e) == [AttNoOutcome EXCEPT !.stage = "raised", !.exc = e]

\* HybridSelfAttention.forward(x, task, mask) up to the softmax (lines 63-77;
\* in the fused path the weights stay inside the kernel and att is None)
AttentionScores(task, T, mask, q, k) ==
    LET flash == att_cfg.flash
        recognized == task = "lm" \/ task = "mlm"
        blocked == IF task = "lm" THEN LmBlocked(flash, T, att_cfg.block_size, mask)
                   ELSE IF task = "mlm" THEN MaskBlocked(T, mask)
                   ELSE {}
    IN  IF flash /\ ~recognized THEN AttRaise("ValueError")
        ELSE IF ~flash /\ task = "lm" /\ ~CausalBufferFits(T, att_cfg.block_size)
        THEN AttRaise("RuntimeError")
        ELSE [stage |-> "softmax", exc |-> "none", returned |-> FALSE,
              blocked |-> blocked, att_returned |-> ~flash,
              att |-> SoftmaxRows(MaskedFill(Scores(q, k, T), blocked), T),
              weights |-> <<>>]

AttNoCall == [task |-> "", T |-> 0, mask |-> NoMask, q |-> <<>>, k |-> <<>>]

AttIdle ==
    /\ att_cfg = [flash |-> TRUE, block_size |-> 1, training |-> FALSE]
    /\ att_call = AttNoCall
    /\ att_out = AttNoOutcome

\* HybridSelfAttention.__init__: flash is whether torch provides
\* scaled_dot_product_attention; training is the module's train()/eval() mode
AttInit ==
    /\ \E f \in BOOLEAN, bs \in 1 .. MaxBlockSize, tr \in BOOLEAN :
          att_cfg = [flash |-> f, block_size |-> bs, training |-> tr]
    /\ att_call = AttNoCall
    /\ att_out = AttNoOutcome

\* forward keeps no state between calls: one call per constructed module
\* shows every outcome
AttentionStart ==
    /\ att_call = AttNoCall
    /\ \E task \in AttTasks, T \in 1 .. MaxT :
        \E mask \in MasksOver(T), q \in [1 .. T -> QKVals], k \in [1 .. T -> QKVals] :
            /\ att_call' = [task |-> task, T |-> T, mask |-> mask, q |-> q, k |-> k]
            /\ att_out' = AttentionScores(task, T, mask, q, k)
            /\ UNCHANGED att_cfg

\* y = self.attn_dropout(att) @ v (dropout_p of the fused kernel); return y, att
AttentionFinish ==
    /\ att_out.stage = "softmax"
    /\ \E dropped \in {d \in SUBSET Pairs(att_call.T) : Cardinality(d) <= MaxDropped} :
          att_out' = [att_out EXCEPT !.stage = "done", !.returned = TRUE,
                                     !.weights = Dropout(att_out.att, dropped,
                                                         att_cfg.training)]
    /\ UNCHANGED <<att_cfg, att_call>>

(***************************************************************************)
(* Jointformer.__init__ / from_config: weight tying                        *)
(***************************************************************************)
MaxWeightVal == 2
WeightVals == 0 .. MaxWeightVal
\* the three modules whose weight matrices have shape (vocab_size, embedding_dim)
TiedModules == {"token_embedding", "lm_head", "mlm_head"}
ConfigTaskTypes == PredictionTaskTypes \cup {"ranking"}

\* every module is created with a parameter storage of its own
OwnStorage == [m \in TiedModules |-> m]

\* tie_weights = True leaves out the assignment to mlm_head.weight
TieWeightsEmbeddingOnly(w) == [w EXCEPT !["token_embedding"] = w["lm_head"]]

\* self.token_embedding.weight = self.lm_head.weight
\* self.mlm_head.weight = self.lm_head.weight
TieWeights(w) ==
    [w EXCEPT !["token_embedding"] = w["lm_head"], !["mlm_head"] = w["lm_head"]]

\* an in-place write of value v to the weight of module m
WriteThrough(st, w, m, v) == [st EXCEPT ![w[m]] = v]

\* what reading the weight of module m gives
ReadThrough(m) == storage[weight[m]]

NoArgs ==
    [prediction_task_type |-> None, init_weights |-> FALSE,
     tie_weights |-> FALSE, via |-> None]
NoWrite == [through |-> None, value |-> 0]

TieIdle ==
    /\ tie_config = [prediction_task_type |-> None, tie_weights |-> FALSE,
                     init_weights |-> FALSE]
    /\ tie_args = NoArgs
    /\ weight = OwnStorage
    /\ storage = [m \in TiedModules |-> 0]
    /\ last_write = NoWrite
    /\ tpc = "idle"

TieInit ==
    /\ tie_config \in [prediction_task_type : ConfigTaskTypes,
                       tie_weights : BOOLEAN, init_weights : BOOLEAN]
    /\ tie_args = NoArgs
    /\ weight = OwnStorage
    /\ storage = [m \in TiedModules |-> 0]
    /\ last_write = NoWrite
    /\ tpc = "new"

\* Jointformer.__init__ up to the call of initialize_parameters
JointformerInit(args) ==
    /\ tpc = "new"
    /\ tie_args' = args
    /\ last_write' = NoWrite
    /\ \E created \in [TiedModules -> WeightVals] :
          /\ storage' = created
          /\ IF args.prediction_task_type \notin PredictionTaskTypes
             THEN /\ tpc' = "raised"
                  /\ weight' = OwnStorage
             ELSE /\ weight' = IF args.tie_weights THEN TieWeights(OwnStorage)
                                                   ELSE OwnStorage
                  /\ tpc' = IF args.init_weights THEN "init" ELSE "built"
    /\ UNCHANGED tie_config

\* a direct call of the constructor: every argument is the caller's
Construct ==
    JointformerInit([prediction_task_type |-> tie_config.prediction_task_type,
                     init_weights |-> tie_config.init_weights,
                     tie_weights |-> tie_config.tie_weights,
                     via |-> "__init__"])

\* from_config passes neither init_weights nor tie_weights: both default to True
FromConfig ==
    JointformerInit([prediction_task_type |-> tie_config.prediction_task_type,
                     init_weights |-> TRUE,
                     tie_weights |-> TRUE,
                     via |-> "from_config"])

\* initialize_parameters: fills the weight of every module in place
InitializeParameters ==
    /\ tpc = "init"
    /\ \E v \in [TiedModules -> WeightVals] :
          /\ storage' = WriteThrough(
                          WriteThrough(
                            WriteThrough(storage, weight, "token_embedding",
                                         v["token_embedding"]),
                            weight, "lm_head", v["lm_head"]),
                          weight, "mlm_head", v["mlm_head"])
          /\ last_write' = [through |-> "mlm_head", value |-> v["mlm_head"]]
    /\ tpc' = "built"
    /\ UNCHANGED <<tie_config, tie_args, weight>>

\* an in-place update of one of the three matrices of the built model
UpdateInPlace ==
    /\ tpc = "built"
    /\ \E m \in TiedModules, v \in WeightVals :
          /\ storage' = WriteThrough(storage, weight, m, v)
          /\ last_write' = [through |-> m, value |-> v]
    /\ UNCHANGED <<tie_config, tie_args, weight, tpc>>

(***************************************************************************)
(* Trainer.__init__: _ddp, _post_init, _post_init_model, _init_ckpt        *)
(***************************************************************************)
MaxProcs == 2
MaxGradAcc == 2
BestValLossInit == 1000000000
Procs == 1 .. MaxProcs
\* the launcher numbers the processes of a run from 0
RankOf(p) == p - 1

NoCkpt == [iter_num |-> -1, best_val_loss |-> -1]
ProcAbsent ==
    [pc |-> "absent", ddp |-> FALSE, master_process |-> FALSE, seed_offset |-> 0,
     ddp_world_size |-> 0, gradient_accumulation_steps |-> 0, wraps |-> 0,
     ckpt |-> NoCkpt, exc |-> "none"]

\* a plain launch is one process without RANK; a distributed launch exports
\* RANK, LOCAL_RANK and WORLD_SIZE to each of its WORLD_SIZE processes
Launches ==
    {l \in [world_size : Procs, rank_env : BOOLEAN, ddp_enabled : BOOLEAN,
            gradient_accumulation_steps : 1 .. MaxGradAcc] :
        ~l.rank_env => l.world_size = 1}

DdpIdle ==
    /\ run = [world_size |-> 0, rank_env |-> FALSE, ddp_enabled |-> FALSE,
              gradient_accumulation_steps |-> 0]
    /\ proc = [p \in Procs |-> ProcAbsent]
    /\ out_dir_makers = {}

DdpInit ==
    /\ run \in Launches
    /\ proc = [p \in Procs |->
                 IF p <= run.world_size
                 THEN [ProcAbsent EXCEPT
                         !.pc = "_ddp",
                         !.gradient_accumulation_steps =
                             run.gradient_accumulation_steps]
                 ELSE ProcAbsent]
    /\ out_dir_makers = {}

\* the attributes _ddp sets before it reads self.model.max_seq_len
DdpBranch(p) ==
    IF run.rank_env /\ run.ddp_enabled
    THEN [proc[p] EXCEPT
            !.ddp = TRUE,
            !.ddp_world_size = run.world_size,
            !.master_process = (RankOf(p) = 0),
            !.seed_offset = RankOf(p)]
    ELSE [proc[p] EXCEPT
            !.ddp = run.rank_env,
            !.master_process = TRUE,
            !.seed_offset = 0,
            !.ddp_world_size = 1]

Ddp(p) ==
    /\ proc[p].pc = "_ddp"
    /\ LET r == DdpBranch(p) IN
       IF run.rank_env /\ run.ddp_enabled
       THEN IF r.gradient_accumulation_steps % r.ddp_world_size # 0
            THEN proc' = [proc EXCEPT ![p] =
                            [r EXCEPT !.pc = "raised", !.exc = "AssertionError"]]
            ELSE \* self.model is the DDP wrapper when max_seq_len is read: the
                 \* wrapper either resolves the attribute or raises
                 \E resolves \in BOOLEAN :
                    proc' = [proc EXCEPT ![p] =
                        [r EXCEPT
                           !.gradient_accumulation_steps =
                               r.gradient_accumulation_steps \div r.ddp_world_size,
                           !.wraps = 1,
                           !.pc = IF resolves THEN "_post_init" ELSE "raised",
                           !.exc = IF resolves THEN "none" ELSE "AttributeError"]]
       ELSE proc' = [proc EXCEPT ![p] = [r EXCEPT !.pc = "_post_init"]]
    /\ UNCHANGED <<run, out_dir_makers>>

PostInit(p) ==
    /\ proc[p].pc = "_post_init"
    /\ out_dir_makers' = IF proc[p].master_process
                         THEN out_dir_makers \cup {p}
                         ELSE out_dir_makers
    /\ proc' = [proc EXCEPT ![p].pc = "_post_init_model"]
    /\ UNCHANGED run

PostInitModel(p) ==
    /\ proc[p].pc = "_post_init_model"
    /\ proc' = [proc EXCEPT
                  ![p].wraps = IF proc[p].ddp /\ run.ddp_enabled
                               THEN proc[p].wraps + 1 ELSE proc[p].wraps,
                  ![p].pc = "_init_ckpt"]
    /\ UNCHANGED <<run, out_dir_makers>>

InitCkpt(p) ==
    /\ proc[p].pc = "_init_ckpt"
    /\ proc' = [proc EXCEPT
                  ![p].ckpt = [iter_num |-> 0, best_val_loss |-> BestValLossInit],
                  ![p].pc = "constructed"]
    /\ UNCHANGED <<run, out_dir_makers>>

\* the processes that ended Trainer construction as leader
Leaders == {p \in Procs : proc[p].pc = "constructed" /\ proc[p].master_process}

(***************************************************************************)
(* Trainer.estimate_loss and the other trainer operations                  *)
(***************************************************************************)
MaxEvalIters == 2
MaxBatchSize == 2
Unset == -2
Splits == <<"train", "val">>
LossVals == {0, 1}

\* self.model.train() left out: the mode is whatever it was
ModelTrainSkipped(mode) == mode

\* self.model.eval() and self.model.train()
ModelEval(mode) == FALSE
ModelTrain(mode) == TRUE

\* losses.mean() over eval_iters entries, in hundredths: NaN for no entries
LossesMean(sum, n) == IF n = 0 THEN NaN ELSE (sum * 100) \div n

\* sum(valid) / len(valid), in hundredths
ValidScore(v) == (v.sum * 100) \div v.len

Event(op, kind, split) ==
    [op |-> op, kind |-> kind, split |-> split, training |-> model_training]

\* the calls the operations of the trainer other than estimate_loss make on
\* the model, the tokenizer and the optimizer
OtherOperations == {"get_batch", "set_lr", "_get_lr", "from_config"}
CallsOf(op) ==
    CASE op = "get_batch" -> {Event("get_batch", "get_inputs", None)}
      [] op = "set_lr" -> {Event("set_lr", "param_groups", None)}
      [] op = "_get_lr" -> {}
      [] op = "from_config" -> {}

EmptyOut == [train |-> Unset, val |-> Unset, valid |-> Unset]
EmptyValid == [len |-> 0, sum |-> 0]

EvalIdle ==
    /\ eval_cfg = [eval_iters |-> 0, batch_size |-> 0]
    /\ model_training = TRUE
    /\ e_split = 1
    /\ e_k = 0
    /\ e_losses = 0
    /\ e_valid = EmptyValid
    /\ e_out = EmptyOut
    /\ e_exc = "none"
    /\ events = {}
    /\ epc = "idle"

EvalInit ==
    /\ eval_cfg \in [eval_iters : 0 .. MaxEvalIters, batch_size : 1 .. MaxBatchSize]
    /\ model_training \in BOOLEAN
    /\ e_split = 1
    /\ e_k = 0
    /\ e_losses = 0
    /\ e_valid = EmptyValid
    /\ e_out = EmptyOut
    /\ e_exc = "none"
    /\ events = {}
    /\ epc = "ready"

\* an operation of the trainer other than estimate_loss, between two calls
OtherOperation ==
    /\ epc \in {"ready", "returned", "raised"}
    /\ \E op \in OtherOperations : events' = events \cup CallsOf(op)
    /\ UNCHANGED <<eval_cfg, model_training, e_split, e_k, e_losses, e_valid, e_out,
                   e_exc, epc>>

\* out = {}; self.model.eval(); the first split's losses = torch.zeros(...)
EvalStart ==
    /\ epc = "ready"
    /\ model_training' = ModelEval(model_training)
    /\ e_out' = EmptyOut
    /\ e_split' = 1
    /\ e_k' = 0
    /\ e_losses' = 0
    /\ epc' = "losses"
    /\ UNCHANGED <<eval_cfg, e_valid, e_exc, events>>

\* one pass of the first inner loop: get_batch, forward, losses[k] = ...
LossIter ==
    /\ epc = "losses"
    /\ e_k < eval_cfg.eval_iters
    /\ \E loss \in LossVals : e_losses' = e_losses + loss
    /\ events' = events \cup
                   {Event("estimate_loss", "get_inputs", Splits[e_split]),
                    Event("estimate_loss", "forward", Splits[e_split])}
    /\ e_k' = e_k + 1
    /\ UNCHANGED <<eval_cfg, model_training, e_split, e_valid, e_out, e_exc, epc>>

\* out[split] = losses.mean(); valid = []
LossMean ==
    /\ epc = "losses"
    /\ e_k = eval_cfg.eval_iters
    /\ e_out' = [e_out EXCEPT ![Splits[e_split]] =
                    LossesMean(e_losses, eval_cfg.eval_iters)]
    /\ e_valid' = EmptyValid
    /\ e_k' = 0
    /\ epc' = "valid"
    /\ UNCHANGED <<eval_cfg, model_training, e_split, e_losses, e_exc, events>>

\* one pass of the second inner loop: generate, is_valid_smiles, valid.extend
GenerateIter ==
    /\ epc = "valid"
    /\ e_k < eval_cfg.eval_iters
    /\ \E n \in 0 .. eval_cfg.batch_size : \E ok \in 0 .. n :
          e_valid' = [len |-> e_valid.len + n, sum |-> e_valid.sum + ok]
    /\ events' = events \cup
                   {Event("estimate_loss", "generate", Splits[e_split]),
                    Event("estimate_loss", "is_valid_smiles", Splits[e_split])}
    /\ e_k' = e_k + 1
    /\ UNCHANGED <<eval_cfg, model_training, e_split, e_losses, e_out, e_exc, epc>>

\* out['valid'] = sum(valid) / len(valid); then the next split or the end
Score ==
    /\ epc = "valid"
    /\ e_k = eval_cfg.eval_iters
    /\ IF e_valid.len = 0
       THEN /\ e_exc' = "ZeroDivisionError"
            /\ epc' = "raised"
            /\ UNCHANGED <<e_out, e_split, e_k, e_losses>>
       ELSE /\ e_out' = [e_out EXCEPT !.valid = ValidScore(e_valid)]
            /\ e_exc' = "none"
            /\ IF e_split < Len(Splits)
               THEN /\ e_split' = e_split + 1
                    /\ e_k' = 0
                    /\ e_losses' = 0
                    /\ epc' = "losses"
               ELSE /\ epc' = "restore"
                    /\ UNCHANGED <<e_split, e_k, e_losses>>
    /\ UNCHANGED <<eval_cfg, model_training, e_valid, events>>

\* self.model.train(); return out
EvalReturn ==
    /\ epc = "restore"
    /\ model_training' = ModelTrain(model_training)
    /\ epc' = "returned"
    /\ UNCHANGED <<eval_cfg, e_split, e_k, e_losses, e_valid, e_out, e_exc, events>>

(***************************************************************************)
(* Specifications                                                          *)
(***************************************************************************)
InitGen == GenInit /\ SampleIdle /\ LrIdle /\ LossIdle /\ AttIdle /\ TieIdle /\ DdpIdle /\ EvalIdle
NextGen ==
    \/ GenStart /\ UNCHANGED <<sampleVars, lrVars, lossVars, attVars, tieVars, ddpVars, evalVars>>
    \/ GenStep /\ UNCHANGED <<sampleVars, lrVars, lossVars, attVars, tieVars, ddpVars, evalVars>>
    \/ GenFinish /\ UNCHANGED <<sampleVars, lrVars, lossVars, attVars, tieVars, ddpVars, evalVars>>
SpecGen == InitGen /\ [][NextGen]_vars

InitSample == SampleInit /\ GenIdle /\ LrIdle /\ LossIdle /\ AttIdle /\ TieIdle /\ DdpIdle /\ EvalIdle
NextSample ==
    \/ SampleFilter /\ UNCHANGED <<genVars, lrVars, lossVars, attVars, tieVars, ddpVars, evalVars>>
    \/ SampleDraw /\ UNCHANGED <<genVars, lrVars, lossVars, attVars, tieVars, ddpVars, evalVars>>
SpecSample == InitSample /\ [][NextSample]_vars

InitLr == LrInit /\ GenIdle /\ SampleIdle /\ LossIdle /\ AttIdle /\ TieIdle /\ DdpIdle /\ EvalIdle
NextLr == SetLr /\ UNCHANGED <<genVars, sampleVars, lossVars, attVars, tieVars, ddpVars, evalVars>>
SpecLr == InitLr /\ [][NextLr]_vars

InitLoss == LossInit /\ GenIdle /\ SampleIdle /\ LrIdle /\ AttIdle /\ TieIdle /\ DdpIdle /\ EvalIdle
NextLoss ==
    \/ CallForward /\ UNCHANGED <<genVars, sampleVars, lrVars, attVars, tieVars, ddpVars, evalVars>>
    \/ CallPredict /\ UNCHANGED <<genVars, sampleVars, lrVars, attVars, tieVars, ddpVars, evalVars>>
    \/ CallGetLoss /\ UNCHANGED <<genVars, sampleVars, lrVars, attVars, tieVars, ddpVars, evalVars>>
SpecLoss == InitLoss /\ [][NextLoss]_vars

InitAtt == AttInit /\ GenIdle /\ SampleIdle /\ LrIdle /\ LossIdle /\ TieIdle /\ DdpIdle /\ EvalIdle
NextAtt ==
    \/ AttentionStart /\ UNCHANGED <<genVars, sampleVars, lrVars, lossVars, tieVars, ddpVars, evalVars>>
    \/ AttentionFinish /\ UNCHANGED <<genVars, sampleVars, lrVars, lossVars, tieVars, ddpVars, evalVars>>
SpecAtt == InitAtt /\ [][NextAtt]_vars

InitTie == TieInit /\ GenIdle /\ SampleIdle /\ LrIdle /\ LossIdle /\ AttIdle /\ DdpIdle /\ EvalIdle
NextTie ==
    \/ Construct /\ UNCHANGED <<genVars, sampleVars, lrVars, lossVars, attVars, ddpVars, evalVars>>
    \/ FromConfig /\ UNCHANGED <<genVars, sampleVars, lrVars, lossVars, attVars, ddpVars, evalVars>>
    \/ InitializeParameters /\ UNCHANGED <<genVars, sampleVars, lrVars, lossVars, attVars, ddpVars, evalVars>>
    \/ UpdateInPlace /\ UNCHANGED <<genVars, sampleVars, lrVars, lossVars, attVars, ddpVars, evalVars>>
SpecTie == InitTie /\ [][NextTie]_vars

InitDdp == DdpInit /\ GenIdle /\ SampleIdle /\ LrIdle /\ LossIdle /\ AttIdle /\ TieIdle /\ EvalIdle
NextDdp ==
    \/ (\E p \in Procs : Ddp(p)) /\ UNCHANGED <<genVars, sampleVars, lrVars, lossVars, attVars, tieVars, evalVars>>
    \/ (\E p \in Procs : PostInit(p)) /\ UNCHANGED <<genVars, sampleVars, lrVars, lossVars, attVars, tieVars, evalVars>>
    \/ (\E p \in Procs : PostInitModel(p)) /\ UNCHANGED <<genVars, sampleVars, lrVars, lossVars, attVars, tieVars, evalVars>>
    \/ (\E p \in Procs : InitCkpt(p)) /\ UNCHANGED <<genVars, sampleVars, lrVars, lossVars, attVars, tieVars, evalVars>>
SpecDdp == InitDdp /\ [][NextDdp]_vars

InitEval == EvalInit /\ GenIdle /\ SampleIdle /\ LrIdle /\ LossIdle /\ AttIdle /\ TieIdle /\ DdpIdle
NextEval ==
    \/ OtherOperation /\ UNCHANGED <<genVars, sampleVars, lrVars, lossVars, attVars, tieVars, ddpVars>>
    \/ EvalStart /\ UNCHANGED <<genVars, sampleVars, lrVars, lossVars, attVars, tieVars, ddpVars>>
    \/ LossIter /\ UNCHANGED <<genVars, sampleVars, lrVars, lossVars, attVars, tieVars, ddpVars>>
    \/ LossMean /\ UNCHANGED <<genVars, sampleVars, lrVars, lossVars, attVars, tieVars, ddpVars>>
    \/ GenerateIter /\ UNCHANGED <<genVars, sampleVars, lrVars, lossVars, attVars, tieVars, ddpVars>>
    \/ Score /\ UNCHANGED <<genVars, sampleVars, lrVars, lossVars, attVars, tieVars, ddpVars>>
    \/ EvalReturn /\ UNCHANGED <<genVars, sampleVars, lrVars, lossVars, attVars, tieVars, ddpVars>>
SpecEval == InitEval /\ [][NextEval]_vars

(***************************************************************************)
(* Claims                                                                  *)
(***************************************************************************)
\* C1: every sequence of the batch returned by Jointformer.generate contains
\* the end token (sep_token_id), whatever the tokenizer and the samples.
C1_ReturnedBatchHasEndToken ==
    gpc = "returned" => \A b \in Batch : eos_token_id \in Range(idx[b])

\* C1 witness: generate returned a batch in which some row never sampled the
\* end token and had its last position overwritten by the safeguard.
C1_SafeguardActed ==
    /\ gpc = "returned"
    /\ forced # {}
    /\ \E b \in forced : Len(idx[b]) > PrefixLen /\ Last(idx[b]) = eos_token_id

\* a position of row b that generate_single_token appended while the row's
\* last token was already the end token or the pad token
AppendedAfterEnd(b, p) ==
    /\ p \in (PrefixLen + 1) .. Len(idx[b])
    /\ \E q \in PrefixLen .. (p - 1) :
          q >= 1 /\ (idx[b][q] = eos_token_id \/ idx[b][q] = pad_token_id)

\* C2: in generate_single_token, once a row's last token is the end token or
\* the pad token, every token appended from then on is the pad token, for
\* every eos_token_id and pad_token_id (token id 0 included).
C2_OnceEndedStaysEnded ==
    gpc = "loop" =>
        \A b \in Batch : \A p \in 1 .. Len(idx[b]) :
            AppendedAfterEnd(b, p) => idx[b][p] = pad_token_id

\* C3: with top_k = 1 exactly one token keeps non-zero probability after the
\* top-k filter, it is a maximal logit, and repeated samples from the same
\* logits agree, for every logit vector (ties at the maximum included).
C3_TopOneIsDeterministic ==
    (spc = "probs" /\ s_top_k = 1) =>
        /\ Cardinality({t \in TokenIds : s_probs[t] > 0}) = 1
        /\ \A t \in TokenIds :
              s_probs[t] > 0 => \A u \in TokenIds : s_logits[u] <= s_logits[t]
        /\ \A i, j \in DOMAIN s_draws : s_draws[i] = s_draws[j]

\* C4: _get_lr(it) returns exactly min_lr, without raising, for every
\* it >= lr_decay_iters and every warmup_iters / lr_decay_iters.
C4_FloorFromDecayHorizon ==
    \A it \in 0 .. MaxIter :
        (lr_log[it].called /\ it >= trainer.lr_decay_iters) =>
            (lr_log[it].exc = "none" /\ lr_log[it].val = trainer.min_lr)

ScheduleWellFormed ==
    /\ 0 < trainer.warmup_iters
    /\ trainer.warmup_iters < trainer.lr_decay_iters
    /\ 0 <= trainer.min_lr
    /\ trainer.min_lr <= trainer.learning_rate

Populated(field) == field # None

\* the task of the forward call that the last call ended up making
CausalCall ==
    \/ call.entry = "forward" /\ call.task = "generation"
    \/ call.entry = "get_loss" /\ call.task \in {"lm", "generation"}

\* C6: forward with a task outside {generation, mlm, prediction, physchem}
\* and get_loss with a task outside {lm, generation, mlm, prediction,
\* physchem} raise before the transformer body or any head runs, and return
\* no ModelOutput.
C6_UnrecognizedTaskRaises ==
    (\/ call.entry = "forward" /\ call.task \notin ForwardTasks
     \/ call.entry = "get_loss" /\ call.task \notin LossTasks) =>
        /\ ~out.returned
        /\ out.exc = "ValueError"
        /\ out.body_calls = <<>>
        /\ out.heads_run = {}
        /\ out.mo = EmptyOutput

\* C6 witness: forward was called with the loss-facing tag lm, which forward
\* does not recognize, and raised.
C6_ForwardRejectedLm ==
    call.entry = "forward" /\ call.task = "lm" /\ out.exc = "ValueError"

\* C7 (as claimed): a returned ModelOutput has exactly the logits of the
\* requested task: generation/lm leaves physchem and prediction unset,
\* physchem leaves prediction and generation unset, prediction leaves
\* physchem and generation unset, mlm leaves physchem and prediction unset.
C7_OnlyRequestedLogits ==
    (out.returned /\ call.entry \in {"forward", "get_loss"}) =>
        /\ CausalCall =>
              /\ Populated(out.mo.logits_generation)
              /\ ~Populated(out.mo.logits_physchem)
              /\ ~Populated(out.mo.logits_prediction)
        /\ call.task = "physchem" =>
              /\ Populated(out.mo.logits_physchem)
              /\ ~Populated(out.mo.logits_prediction)
              /\ ~Populated(out.mo.logits_generation)
        /\ call.task = "prediction" =>
              /\ Populated(out.mo.logits_prediction)
              /\ ~Populated(out.mo.logits_physchem)
              /\ ~Populated(out.mo.logits_generation)
        /\ call.task = "mlm" =>
              /\ ~Populated(out.mo.logits_physchem)
              /\ ~Populated(out.mo.logits_prediction)

\* C7 (amended): a generation/lm call populates logits_generation alone; a
\* physchem, prediction or mlm call populates both logits_physchem and
\* logits_prediction; logits_generation is then unset, except that get_loss
\* with mlm fills it from the MLM head.
C7_LogitsByMaskingMode ==
    (out.returned /\ call.entry \in {"forward", "get_loss"}) =>
        /\ CausalCall =>
              /\ out.mo.logits_generation = "lm_head(lm_embeddings)"
              /\ ~Populated(out.mo.logits_physchem)
              /\ ~Populated(out.mo.logits_prediction)
        /\ ~CausalCall =>
              /\ Populated(out.mo.logits_physchem)
              /\ Populated(out.mo.logits_prediction)
              /\ IF call.entry = "get_loss" /\ call.task = "mlm"
                 THEN out.mo.logits_generation = "mlm_head(embeddings)"
                 ELSE ~Populated(out.mo.logits_generation)

\* C7 witness: forward with task physchem returned with the prediction logits
\* populated as well.
C7_PhyschemCallHasPredictionLogits ==
    /\ call.entry = "forward" /\ call.task = "physchem" /\ out.returned
    /\ Populated(out.mo.logits_physchem)
    /\ Populated(out.mo.logits_prediction)

\* C8: get_loss with physchem runs the body once, non-causal with the
\* caller's attention_mask, and returns logits_physchem populated and
\* logits_generation unset; get_loss with lm or generation runs it causal
\* with no mask and returns logits_generation populated and the prediction
\* and physchem logits unset; forward populates logits_generation if and
\* only if the body ran causal.
C8_LossRouting ==
    out.returned =>
        /\ (call.entry = "get_loss" /\ call.task = "physchem") =>
              /\ out.body_calls = <<[is_causal |-> FALSE,
                                     attention_mask |-> call.attention_mask]>>
              /\ Populated(out.mo.logits_physchem)
              /\ ~Populated(out.mo.logits_generation)
        /\ (call.entry = "get_loss" /\ call.task \in {"lm", "generation"}) =>
              /\ out.body_calls = <<[is_causal |-> TRUE, attention_mask |-> None]>>
              /\ Populated(out.mo.logits_generation)
              /\ ~Populated(out.mo.logits_prediction)
              /\ ~Populated(out.mo.logits_physchem)
        /\ call.entry = "forward" =>
              /\ Len(out.body_calls) = 1
              /\ Populated(out.mo.logits_generation) <=> out.body_calls[1].is_causal
              /\ out.body_calls[1].is_causal <=> call.task = "generation"

\* C8 witness: get_loss with physchem and a mask returned a loss from the
\* non-causal path.
C8_PhyschemLossReturned ==
    /\ call.entry = "get_loss" /\ call.task = "physchem" /\ out.returned
    /\ call.attention_mask = "attention_mask"
    /\ out.mo.loss = "mse_loss"
    /\ out.body_calls[1].attention_mask = "attention_mask"

\* the label argument the loss path of the last get_loss call reads
LabelArgument ==
    IF call.task \in {"lm", "generation", "mlm"} THEN call.input_labels
    ELSE call.properties

\* the fields forward sets, as the loss path's own forward call sets them
ForwardFieldsIntact ==
    LET inner == IF call.task \in {"lm", "generation"} THEN "generation"
                 ELSE IF call.task = "mlm" THEN "mlm"
                 ELSE "prediction"
        fwd == Forward(inner, call.attention_mask, FALSE).mo
    IN  /\ out.mo.attention_mask = call.attention_mask
        /\ out.mo.embeddings = fwd.embeddings
        /\ out.mo.cls_embeddings = fwd.cls_embeddings
        /\ out.mo.lm_embeddings = fwd.lm_embeddings
        /\ Populated(out.mo.embeddings)

\* C9 (as claimed): every get_loss path that returns has loss populated, for
\* every combination of input_labels and properties (None included), with
\* the fields set by forward unchanged.
C9_LossAlwaysPopulated ==
    (call.entry = "get_loss" /\ out.returned) =>
        /\ Populated(out.mo.loss)
        /\ ForwardFieldsIntact

\* C9 (amended): a get_loss path that returns has loss populated if and only
\* if the label argument it reads (input_labels for lm/generation/mlm,
\* properties for physchem/prediction) is not None; the fields set by
\* forward are unchanged either way.
C9_LossPopulatedIffLabelsGiven ==
    (call.entry = "get_loss" /\ out.returned) =>
        /\ Populated(out.mo.loss) <=> LabelArgument # None
        /\ ForwardFieldsIntact

\* C9 witness: get_loss with lm and labels returned a cross-entropy loss.
C9_LmLossReturned ==
    /\ call.entry = "get_loss" /\ call.task = "lm" /\ out.returned
    /\ call.input_labels = "input_labels"
    /\ out.mo.loss = "cross_entropy"
    /\ out.mo.embeddings = "embeddings"

\* C10: with task lm and T <= block_size, every pair (i, j) with j > i is
\* blocked (filled with -inf before the softmax) and has weight exactly zero
\* after it, in the softmax output and in the weights applied to the values,
\* and the blocked pairs are the same whatever mask is supplied.
C10_LmIsStrictlyCausal ==
    (att_call.task = "lm" /\ att_call.T <= att_cfg.block_size /\ att_call.T >= 1) =>
        /\ att_out.exc = "none"
        /\ att_out.blocked = {p \in Pairs(att_call.T) : p[2] > p[1]}
        /\ \A p \in Pairs(att_call.T) :
              /\ p[2] > p[1] => att_out.att[p] = 0
              /\ p[2] <= p[1] => att_out.att[p] > 0
              /\ (att_out.returned /\ p[2] > p[1]) => att_out.weights[p] = 0

\* C10 witness: an lm call on the explicit path with a mask that excludes
\* position 1 returned weights in which query 2 still attends to position 1
\* and query 1 does not attend to position 2.
C10_LmIgnoredMask ==
    /\ att_call.task = "lm" /\ att_call.T >= 2 /\ att_call.T <= att_cfg.block_size
    /\ att_call.mask.given /\ 1 \notin att_call.mask.keep
    /\ att_out.returned /\ att_out.att_returned
    /\ att_out.att[<<2, 1>>] > 0
    /\ att_out.weights[<<2, 1>>] > 0
    /\ att_out.att[<<1, 2>>] = 0

\* C11: HybridSelfAttention.forward raises for every task other than lm and
\* mlm on both the fused and the explicit path; with such a task it computes
\* no attention and returns nothing.
C11_UnknownTaskRaises ==
    (att_call.T >= 1 /\ att_call.task \notin {"lm", "mlm"}) =>
        /\ att_out.stage = "raised"
        /\ att_out.exc = "ValueError"
        /\ ~att_out.returned
        /\ att_out.att = <<>>

\* the generation prefix holds neither the end token nor the pad token
PrefixIsOpen ==
    /\ eos_token_id \notin Range(tokenizer.generation_prefix)
    /\ pad_token_id \notin Range(tokenizer.generation_prefix)

\* C16: for a prefix without end and pad token, every sequence generate
\* returns has length len(prefix) + max_molecule_length - 2, the safeguard
\* overwrites the last position without lengthening the row, and every token
\* after the first end token of a row is the pad token.
C16_LengthAndPaddingAfterEnd ==
    (gpc = "returned" /\ PrefixIsOpen) =>
        \A b \in Batch :
            /\ Len(idx[b]) = PrefixLen + tokenizer.max_molecule_length - 2
            /\ b \in forced => Last(idx[b]) = eos_token_id
            /\ \A p, r \in 1 .. Len(idx[b]) :
                  (idx[b][p] = eos_token_id /\ p < r) => idx[b][r] = pad_token_id

\* C12: in every state after the construction of a Jointformer with weight
\* tying enabled (after parameter initialization and after every in-place
\* update too) the token embedding, the LM head and the MLM head refer to one
\* parameter storage, so the last write through any of them is read through
\* all three; every model built through from_config has tying enabled.
C12_TiedWeightsShareStorage ==
    /\ (tpc \in {"init", "built"} /\ tie_args.tie_weights) =>
          /\ \A m, n \in TiedModules : weight[m] = weight[n]
          /\ last_write.through # None =>
                \A m \in TiedModules : ReadThrough(m) = last_write.value
    /\ (tpc \in {"init", "built"} /\ tie_args.via = "from_config") =>
          tie_args.tie_weights

C12_WriteToEmbeddingSeenByHeads ==
    /\ tpc = "built"
    /\ tie_args.via = "from_config"
    /\ ~tie_config.tie_weights
    /\ last_write = [through |-> "token_embedding", value |-> MaxWeightVal]
    /\ ReadThrough("lm_head") = MaxWeightVal
    /\ ReadThrough("mlm_head") = MaxWeightVal

\* C13: among the processes of one training run, whatever the
\* RANK/LOCAL_RANK/WORLD_SIZE environment and the ddp_enabled option, at most
\* one process ends Trainer construction as leader and it is the process of
\* rank 0; so at most one process creates the output directory.
C13_AtMostOneLeader ==
    /\ Cardinality(Leaders) <= 1
    /\ \A p \in Leaders : RankOf(p) = 0
    /\ Cardinality(out_dir_makers) <= 1

\* C14: Trainer.estimate_loss never divides by zero when scoring validity:
\* whenever the list of validity results is empty, the call does not raise
\* and the validity score it reports is zero.
C14_EmptyValidScoresZero ==
    /\ e_exc # "ZeroDivisionError"
    /\ epc # "raised"
    /\ (epc = "returned" /\ e_valid.len = 0) => e_out.valid = 0

ModelCalls == {"forward", "generate"}

\* C15: estimate_loss follows train -> eval -> train: every forward pass and
\* every generate call, for both splits, happens with the model in evaluation
\* mode, the model is in evaluation mode throughout the loops, it is in
\* training mode whenever estimate_loss has returned, and no operation of the
\* trainer other than estimate_loss calls generate or is_valid_smiles.
C15_ModeProtocol ==
    /\ \A e \in events :
          /\ e.kind \in ModelCalls => ~e.training
          /\ e.kind \in ModelCalls \cup {"is_valid_smiles"} =>
                e.op = "estimate_loss"
    /\ epc \in {"losses", "valid", "restore"} => ~model_training
    /\ epc = "returned" => model_training

C15_BothSplitsEvaluatedAndReturned ==
    /\ epc = "returned"
    /\ model_training
    /\ \A sp \in Range(Splits), kind \in ModelCalls :
          [op |-> "estimate_loss", kind |-> kind, split |-> sp,
           training |-> FALSE] \in events
    /\ \E e \in events : e.op = "get_batch"
    /\ e_out.valid = 100

====
